---- MODULE Spec2Model ----
(***************************************************************************)
(* InputXGradient.attribute (captum/attr/_core/input_x_gradient.py).       *)
(*                                                                         *)
(* The model follows one attribute call statement by statement (lines      *)
(* 74-87).  The caller's tensors are objects with an identity, a payload   *)
(* (data) and the requires_grad flag; every other Python value is a record *)
(* tagged with its type, so that isinstance, the wrapping done by          *)
(* format_input and the unwrapping done by _format_attributions are real   *)
(* conversions.  Tensors are one-dimensional here: the shape of a tensor   *)
(* is the length of its payload.                                           *)
(*                                                                         *)
(* The helpers imported at lines 2-4 and the inherited gradient_func live  *)
(* outside input_x_gradient.py; they are modelled from their documented    *)
(* contract.                                                               *)
(***************************************************************************)
EXTENDS Integers, Sequences, FiniteSets, TLC

\* ---------------------------------------------------------------- bounds
NumTensors == 2
MaxTuple == 2

Tensors == 1..NumTensors
Calls == {"A", "B"}

\* Payloads a caller's tensor may hold, values a gradient may take, errors a
\* collaborator may raise, and the argument values a caller may pass.
TensorPool == { <<1, 2, 3>>, <<-2, 0>> }
ForwardFuncs == {"net"}
Errors == {"InvalidShape", "MissingTarget", "NonDifferentiablePath"}

\* ---------------------------------------------------------- Python values
PyNone == [type |-> "NoneType"]
PyInt(n) == [type |-> "int", value |-> n]
PyTuple(s) == [type |-> "tuple", items |-> s]
TensorRef(t) == [type |-> "Tensor", id |-> t]
NewTensor(d) == [type |-> "Tensor", data |-> d]
Unbound == [type |-> "unbound"]

TargetArgs == {PyNone, PyInt(1)}
AdditionalArgs == {PyNone, PyTuple(<<PyInt(7)>>)}

RECURSIVE SeqsUpTo(_, _)
SeqsUpTo(S, n) ==
    IF n = 0 THEN { <<>> }
    ELSE LET shorter == SeqsUpTo(S, n - 1)
         IN  shorter \cup { Append(s, x) : s \in {q \in shorter : Len(q) = n - 1}, x \in S }

\* What a caller may pass as `inputs`: one tensor, or a non-empty tuple of
\* tensors (the same tensor may occur twice).
InputArgs ==
    { TensorRef(t) : t \in Tensors }
    \cup { PyTuple([i \in 1..Len(s) |-> TensorRef(s[i])]) :
             s \in SeqsUpTo(Tensors, MaxTuple) \ { <<>> } }

VARIABLES
    requires_grad,           \* tensor -> its differentiability flag
    data,                    \* tensor -> its payload
    forward_func,            \* self.forward_func, set by __init__
    pc,                      \* call -> the statement it is about to execute
    args,                    \* call -> the arguments the caller passed
    pre,                     \* call -> the flags at the moment of the call
    is_inputs_tuple,         \* locals of attribute, per call
    inputs,
    gradient_mask,
    gradients,
    attributions,
    gradient_calls,          \* call -> argument lists gradient_func received
    thrown,                  \* call -> what the collaborator raised
    outcome                  \* call -> what the caller gets back

vars == << requires_grad, data, forward_func, pc, args, pre, is_inputs_tuple,
           inputs, gradient_mask, gradients, attributions, gradient_calls,
           thrown, outcome >>

locals == << is_inputs_tuple, inputs, gradient_mask, gradients, attributions >>

NoOutcome == [kind |-> "none"]
Returned(v) == [kind |-> "return", value |-> v]
Raised(e) == [kind |-> "raise", exc |-> e]

\* ------------------------------------------------------------ the helpers
IsInstanceTuple(x) == x.type = "tuple"

\* format_input: a bare tensor becomes a one-element tuple, a tuple passes.
format_input(x) == IF IsInstanceTuple(x) THEN x ELSE PyTuple(<<x>>)

\* apply_gradient_requirements: in order, record each tensor's flag, then force
\* it on.  Yields the new flags and the mask of recorded flags.
RECURSIVE ApplyFrom(_, _, _, _)
ApplyFrom(flags, items, i, mask) ==
    IF i > Len(items) THEN [flags |-> flags, mask |-> mask]
    ELSE ApplyFrom([flags EXCEPT ![items[i].id] = TRUE], items, i + 1,
                   Append(mask, flags[items[i].id]))

apply_gradient_requirements(flags, ins) == ApplyFrom(flags, ins.items, 1, <<>>)

\* undo_gradient_requirements: in order, switch off each tensor whose recorded
\* flag was off.
RECURSIVE UndoFrom(_, _, _, _)
UndoFrom(flags, items, mask, i) ==
    IF i > Len(items) THEN flags
    ELSE UndoFrom(IF mask[i] THEN flags ELSE [flags EXCEPT ![items[i].id] = FALSE],
                  items, mask, i + 1)

undo_gradient_requirements(flags, ins, mask) == UndoFrom(flags, ins.items, mask, 1)

\* _format_attributions: the tuple itself, or its only element.
format_attributions(is_tuple, attrs) ==
    IF is_tuple THEN attrs ELSE attrs.items[1]

\* The gradients gradient_func may return for one tensor of n elements: all
\* zero, all one, or of mixed sign and magnitude.
GradientsOfShape(n) ==
    { [i \in 1..n |-> 0], [i \in 1..n |-> 1],
      [i \in 1..n |-> IF i % 2 = 1 THEN -i ELSE i] }

RECURSIVE GradientTuples(_, _)
GradientTuples(d, items) ==
    IF items = <<>> THEN { <<>> }
    ELSE { <<NewTensor(g)>> \o rest :
             g \in GradientsOfShape(Len(d[items[1].id])),
             rest \in GradientTuples(d, Tail(items)) }

\* gradient_func: a tuple of gradients, one per input, each of its input's shape.
gradient_func(d, ins) == { PyTuple(s) : s \in GradientTuples(d, ins.items) }


\* ------------------------------------------------- attribute, by statement
\* Variant: the flags are restored right after they were forced on.
StatementAfterUndoEarly(stmt) ==
    CASE stmt = "normalize" -> "apply"
      [] stmt = "apply" -> "undo"
      [] stmt = "undo" -> "gradient"
      [] stmt = "gradient" -> "multiply"
      [] stmt = "multiply" -> "format"
      [] stmt = "format" -> "returned"

\* The statement that follows each statement of attribute.
StatementAfter(stmt) ==
    CASE stmt = "normalize" -> "apply"
      [] stmt = "apply" -> "gradient"
      [] stmt = "gradient" -> "multiply"
      [] stmt = "multiply" -> "undo"
      [] stmt = "undo" -> "format"
      [] stmt = "format" -> "returned"

\* is_inputs_tuple = isinstance(inputs, tuple)
IsInputsTuple(x) == IsInstanceTuple(x)

\* inputs = format_input(inputs)
NormalizedInputs(x) == format_input(x)

\* Variant: the flags are recorded but not forced on.
ApplyCallNoForce(flags, ins) ==
    [flags |-> flags, mask |-> [i \in 1..Len(ins.items) |-> flags[ins.items[i].id]]]

\* gradient_mask = apply_gradient_requirements(inputs)
ApplyCall(flags, ins) == apply_gradient_requirements(flags, ins)

\* Variant: the target is not handed on.
GradientFuncArgsNoTarget(ff, ins, tgt, extra) ==
    [forward_func |-> ff, inputs |-> ins, target |-> PyNone,
     additional_forward_args |-> extra]

\* self.gradient_func(self.forward_func, inputs, target, additional_forward_args)
GradientFuncArgs(ff, ins, tgt, extra) ==
    [forward_func |-> ff, inputs |-> ins, target |-> tgt,
     additional_forward_args |-> extra]

\* Variant: the exception is caught and another one raised in its place.
OnRaiseWrapped(flags, ins, mask, e) ==
    [flags |-> flags, outcome |-> Raised("AttributionError")]

\* An exception raised inside gradient_func leaves attribute as it is: no
\* handler, no cleanup clause.  Yields the flags and what the caller gets.
OnRaise(flags, ins, mask, e) == [flags |-> flags, outcome |-> Raised(e)]

Min(a, b) == IF a <= b THEN a ELSE b

Abs(n) == IF n < 0 THEN -n ELSE n

\* Variant: the product loses its sign.
ProductAbs(x, g) == NewTensor([i \in 1..Len(x) |-> Abs(x[i] * g.data[i])])

\* Variant: input + gradient.
ProductSum(x, g) == NewTensor([i \in 1..Len(x) |-> x[i] + g.data[i]])

\* input * gradient
Product(x, g) == NewTensor([i \in 1..Len(x) |-> x[i] * g.data[i]])

\* Variant: the attributions come out in reverse order.
AttributionsReversed(d, ins, grads) ==
    LET n == Min(Len(ins.items), Len(grads.items))
    IN  PyTuple([i \in 1..n |->
                   NewTensor([j \in 1..Len(d[ins.items[n + 1 - i].id]) |->
                                d[ins.items[n + 1 - i].id][j]
                                  * grads.items[n + 1 - i].data[j]])])

\* tuple(input * gradient for input, gradient in zip(inputs, gradients))
Attributions(d, ins, grads) ==
    PyTuple([i \in 1..Min(Len(ins.items), Len(grads.items)) |->
               Product(d[ins.items[i].id], grads.items[i])])

\* Variant: the flags are not restored.
UndoCallSkipped(flags, ins, mask) == flags

\* undo_gradient_requirements(inputs, gradient_mask)
UndoCall(flags, ins, mask) == undo_gradient_requirements(flags, ins, mask)

\* Variant: the form of the result is decided by the number of attributions.
ReturnValueByLength(is_tuple, attrs) ==
    IF Len(attrs.items) = 1 THEN attrs.items[1] ELSE attrs

\* return _format_attributions(is_inputs_tuple, attributions)
ReturnValue(is_tuple, attrs) == format_attributions(is_tuple, attrs)

\* ---------------------------------------------------------------- actions
NoArgs == [inputs |-> Unbound, target |-> Unbound, additional_forward_args |-> Unbound]

\* The caller calls attribute(x, tgt, extra); lines 74 and 76 run.
AttributeEnter(c, x, tgt, extra) ==
    /\ pc[c] = "idle"
    /\ args' = [args EXCEPT ![c] =
                  [inputs |-> x, target |-> tgt, additional_forward_args |-> extra]]
    /\ pre' = [pre EXCEPT ![c] = requires_grad]
    /\ is_inputs_tuple' = [is_inputs_tuple EXCEPT ![c] = IsInputsTuple(x)]
    /\ inputs' = [inputs EXCEPT ![c] = NormalizedInputs(x)]
    /\ gradient_mask' = [gradient_mask EXCEPT ![c] = <<>>]
    /\ gradients' = [gradients EXCEPT ![c] = Unbound]
    /\ attributions' = [attributions EXCEPT ![c] = Unbound]
    /\ gradient_calls' = [gradient_calls EXCEPT ![c] = <<>>]
    /\ thrown' = [thrown EXCEPT ![c] = "none"]
    /\ outcome' = [outcome EXCEPT ![c] = NoOutcome]
    /\ pc' = [pc EXCEPT ![c] = StatementAfter("normalize")]
    /\ UNCHANGED << requires_grad, data, forward_func >>

\* Line 77.
ApplyRequirements(c) ==
    /\ pc[c] = "apply"
    /\ LET r == ApplyCall(requires_grad, inputs[c])
       IN  /\ requires_grad' = r.flags
           /\ gradient_mask' = [gradient_mask EXCEPT ![c] = r.mask]
    /\ pc' = [pc EXCEPT ![c] = StatementAfter("apply")]
    /\ UNCHANGED << data, forward_func, args, pre, is_inputs_tuple, inputs,
                    gradients, attributions, gradient_calls, thrown, outcome >>

\* Lines 79-81: gradient_func is entered with its arguments.
GradientFuncCall(c) ==
    /\ pc[c] = "gradient"
    /\ gradient_calls' = [gradient_calls EXCEPT ![c] =
          Append(@, GradientFuncArgs(forward_func, inputs[c], args[c].target,
                                     args[c].additional_forward_args))]
    /\ pc' = [pc EXCEPT ![c] = "in_gradient"]
    /\ UNCHANGED << requires_grad, data, forward_func, args, pre, locals,
                    thrown, outcome >>

\* gradient_func returns some gradients.
GradientFuncReturn(c) ==
    /\ pc[c] = "in_gradient"
    /\ \E g \in gradient_func(data, gradient_calls[c][Len(gradient_calls[c])].inputs) :
          gradients' = [gradients EXCEPT ![c] = g]
    /\ pc' = [pc EXCEPT ![c] = StatementAfter("gradient")]
    /\ UNCHANGED << requires_grad, data, forward_func, args, pre, is_inputs_tuple,
                    inputs, gradient_mask, attributions, gradient_calls, thrown,
                    outcome >>

\* gradient_func (or the forward function it runs) raises e.
GradientFuncRaise(c, e) ==
    /\ pc[c] = "in_gradient"
    /\ thrown' = [thrown EXCEPT ![c] = e]
    /\ LET r == OnRaise(requires_grad, inputs[c], gradient_mask[c], e)
       IN  /\ requires_grad' = r.flags
           /\ outcome' = [outcome EXCEPT ![c] = r.outcome]
    /\ pc' = [pc EXCEPT ![c] = "raised"]
    /\ UNCHANGED << data, forward_func, args, pre, locals, gradient_calls >>

\* Lines 83-85.
Multiply(c) ==
    /\ pc[c] = "multiply"
    /\ attributions' = [attributions EXCEPT ![c] =
                          Attributions(data, inputs[c], gradients[c])]
    /\ pc' = [pc EXCEPT ![c] = StatementAfter("multiply")]
    /\ UNCHANGED << requires_grad, data, forward_func, args, pre, is_inputs_tuple,
                    inputs, gradient_mask, gradients, gradient_calls, thrown,
                    outcome >>

\* Line 86.
UndoRequirements(c) ==
    /\ pc[c] = "undo"
    /\ requires_grad' = UndoCall(requires_grad, inputs[c], gradient_mask[c])
    /\ pc' = [pc EXCEPT ![c] = StatementAfter("undo")]
    /\ UNCHANGED << data, forward_func, args, pre, locals, gradient_calls,
                    thrown, outcome >>

\* Line 87.
AttributeReturn(c) ==
    /\ pc[c] = "format"
    /\ outcome' = [outcome EXCEPT ![c] =
                     Returned(ReturnValue(is_inputs_tuple[c], attributions[c]))]
    /\ pc' = [pc EXCEPT ![c] = StatementAfter("format")]
    /\ UNCHANGED << requires_grad, data, forward_func, args, pre, locals,
                    gradient_calls, thrown >>

\* The caller has its result or its exception; the frame of the call is gone
\* and the caller may call again.
CallerResume(c) ==
    /\ pc[c] \in {"returned", "raised"}
    /\ pc' = [pc EXCEPT ![c] = "idle"]
    /\ args' = [args EXCEPT ![c] = NoArgs]
    /\ pre' = [pre EXCEPT ![c] = requires_grad]
    /\ is_inputs_tuple' = [is_inputs_tuple EXCEPT ![c] = FALSE]
    /\ inputs' = [inputs EXCEPT ![c] = Unbound]
    /\ gradient_mask' = [gradient_mask EXCEPT ![c] = <<>>]
    /\ gradients' = [gradients EXCEPT ![c] = Unbound]
    /\ attributions' = [attributions EXCEPT ![c] = Unbound]
    /\ gradient_calls' = [gradient_calls EXCEPT ![c] = <<>>]
    /\ thrown' = [thrown EXCEPT ![c] = "none"]
    /\ outcome' = [outcome EXCEPT ![c] = NoOutcome]
    /\ UNCHANGED << requires_grad, data, forward_func >>

\* ---------------------------------------------------------- specifications
\* Tensors are interchangeable, so they are numbered by decreasing shape.
Init ==
    /\ requires_grad \in [Tensors -> BOOLEAN]
    /\ data \in [Tensors -> TensorPool]
    /\ \A t \in Tensors : t + 1 \in Tensors => Len(data[t]) >= Len(data[t + 1])
    /\ forward_func \in ForwardFuncs
    /\ pc = [c \in Calls |-> "idle"]
    /\ args = [c \in Calls |-> NoArgs]
    /\ pre = [c \in Calls |-> requires_grad]
    /\ is_inputs_tuple = [c \in Calls |-> FALSE]
    /\ inputs = [c \in Calls |-> Unbound]
    /\ gradient_mask = [c \in Calls |-> <<>>]
    /\ gradients = [c \in Calls |-> Unbound]
    /\ attributions = [c \in Calls |-> Unbound]
    /\ gradient_calls = [c \in Calls |-> <<>>]
    /\ thrown = [c \in Calls |-> "none"]
    /\ outcome = [c \in Calls |-> NoOutcome]

\* One caller, one call after the other.
Next ==
    \/ \E x \in InputArgs, tgt \in TargetArgs, extra \in AdditionalArgs :
          AttributeEnter("A", x, tgt, extra)
    \/ ApplyRequirements("A")
    \/ GradientFuncCall("A")
    \/ GradientFuncReturn("A")
    \/ \E e \in Errors : GradientFuncRaise("A", e)
    \/ Multiply("A")
    \/ UndoRequirements("A")
    \/ AttributeReturn("A")
    \/ CallerResume("A")

Spec == Init /\ [][Next]_vars

\* Two calls whose statements interleave.  Each caller calls once; the
\* arguments are kept to what the flags depend on: which tensors are passed.
ConcInputArgs ==
    { x \in InputArgs :
        IsInstanceTuple(x) =>
            \A i, j \in 1..Len(x.items) : i < j => x.items[i].id < x.items[j].id }

AllOnes(g) ==
    \A i \in 1..Len(g.items) : \A j \in 1..Len(g.items[i].data) : g.items[i].data[j] = 1

InitConc ==
    /\ Init
    /\ data = [t \in Tensors |-> <<1, 2, 3>>]
    /\ forward_func = "net"

\* gradient_func returns the gradient of a sum: all ones.
GradientFuncReturnOnes(c) == GradientFuncReturn(c) /\ AllOnes(gradients'[c])

NextConc ==
    \E c \in Calls :
        \/ \E x \in ConcInputArgs : AttributeEnter(c, x, PyNone, PyNone)
        \/ ApplyRequirements(c)
        \/ GradientFuncCall(c)
        \/ GradientFuncReturnOnes(c)
        \/ GradientFuncRaise(c, "InvalidShape")
        \/ Multiply(c)
        \/ UndoRequirements(c)
        \/ AttributeReturn(c)

SpecConc == InitConc /\ [][NextConc]_vars

\* ------------------------------------------------------ what a caller sees
\* The tensors the caller passed, in order, whichever form it used.
CallerItems(c) ==
    IF args[c].inputs.type = "tuple" THEN args[c].inputs.items ELSE << args[c].inputs >>

\* The tensors the caller got back, in order, whichever form came back.
ResultItems(c) ==
    IF outcome[c].value.type = "tuple" THEN outcome[c].value.items
    ELSE << outcome[c].value >>

\* The tensors a call works on.
TensorsOf(c) == { inputs[c].items[i].id : i \in 1..Len(inputs[c].items) }

AllZero(s) == \A j \in 1..Len(s) : s[j] = 0

IsProduct(r, x, g) ==
    /\ Len(r) = Len(x)
    /\ \A j \in 1..Len(x) : r[j] = x[j] * g[j]

\* ----------------------------------------------------------------- claims

\* C1: when gradient_func raises, every tensor's flag has, at the moment the
\* failure reaches the caller, the value it had before the call.
C1_FlagsRestoredOnRaise ==
    \A c \in Calls : pc[c] = "raised" => requires_grad = pre[c]

\* C2: after attribute returns, every tensor's flag equals its value before
\* that call (off is off again, on stays on), in every call of a sequence of
\* successive calls.
C2_FlagsRestoredOnReturn ==
    \A c \in Calls : pc[c] = "returned" => requires_grad = pre[c]

C2_Witness ==
    /\ pc["A"] = "returned"
    /\ TensorsOf("A") = {1, 2}
    /\ ~pre["A"][1] /\ pre["A"][2]
    /\ ~requires_grad[1] /\ requires_grad[2]
    /\ gradient_mask["A"] \in { <<FALSE, TRUE>>, <<TRUE, FALSE>> }

\* C3: for every index i the returned attribution[i] is exactly the elementwise
\* product of input[i] and the gradient[i] that gradient_func returned.
C3_AttributionIsProduct ==
    \A c \in Calls : pc[c] = "returned" =>
        /\ Len(ResultItems(c)) = Len(CallerItems(c))
        /\ \A i \in 1..Len(CallerItems(c)) :
              IsProduct(ResultItems(c)[i].data, data[CallerItems(c)[i].id],
                        gradients[c].items[i].data)

C3_Witness ==
    /\ pc["A"] = "returned"
    /\ args["A"].inputs = TensorRef(1)
    /\ data[1] = <<1, 2, 3>>
    /\ gradients["A"] = PyTuple(<< NewTensor(<<1, 1, 1>>) >>)
    /\ outcome["A"] = Returned(NewTensor(<<1, 2, 3>>))

\* C4: the form of the result mirrors the form of the inputs argument: a single
\* tensor gives a single tensor, a tuple (also of one element) gives a tuple.
C4_TupleMirroring ==
    \A c \in Calls : pc[c] = "returned" =>
        /\ args[c].inputs.type = "Tensor" => outcome[c].value.type = "Tensor"
        /\ args[c].inputs.type = "tuple" => outcome[c].value.type = "tuple"

C4_Witness ==
    /\ pc["A"] = "returned"
    /\ args["A"].inputs = PyTuple(<< TensorRef(2) >>)
    /\ outcome["A"].value.type = "tuple"
    /\ Len(outcome["A"].value.items) = 1

\* C5: the returned attributions are as many as the inputs, in the same order,
\* and attribution[i] has the shape of input[i].
C5_ShapePreserved ==
    \A c \in Calls : pc[c] = "returned" =>
        /\ Len(ResultItems(c)) = Len(CallerItems(c))
        /\ \A i \in 1..Len(CallerItems(c)) :
              Len(ResultItems(c)[i].data) = Len(data[CallerItems(c)[i].id])

C5_Witness ==
    /\ pc["A"] = "returned"
    /\ args["A"].inputs = PyTuple(<< TensorRef(1), TensorRef(2) >>)
    /\ Len(data[1]) = 3 /\ Len(data[2]) = 2
    /\ Len(outcome["A"].value.items[1].data) = 3
    /\ Len(outcome["A"].value.items[2].data) = 2

\* C6: gradient_func is invoked with exactly (forward_func, the normalized
\* inputs, target, additional_forward_args): target and additional arguments
\* arrive as the caller passed them, and the collection holds the caller's
\* tensors and nothing else.
C6_ArgumentsForwarded ==
    \A c \in Calls : pc[c] \in {"in_gradient", "multiply", "undo", "format", "returned", "raised"} =>
        /\ Len(gradient_calls[c]) = 1
        /\ gradient_calls[c][1].forward_func = forward_func
        /\ gradient_calls[c][1].inputs.type = "tuple"
        /\ gradient_calls[c][1].inputs.items = CallerItems(c)
        /\ gradient_calls[c][1].target = args[c].target
        /\ gradient_calls[c][1].additional_forward_args = args[c].additional_forward_args

C6_Witness ==
    /\ pc["A"] = "in_gradient"
    /\ args["A"].inputs = TensorRef(1)
    /\ args["A"].target = PyNone
    /\ args["A"].additional_forward_args = PyTuple(<< PyInt(7) >>)
    /\ gradient_calls["A"] =
          << [forward_func |-> forward_func, inputs |-> PyTuple(<< TensorRef(1) >>),
              target |-> PyNone,
              additional_forward_args |-> PyTuple(<< PyInt(7) >>)] >>

FirstIndex(items, t) ==
    CHOOSE i \in 1..Len(items) :
        items[i].id = t /\ \A j \in 1..(i - 1) : items[j].id # t

StatementOrder ==
    { <<"idle", "apply">>, <<"apply", "gradient">>, <<"gradient", "in_gradient">>,
      <<"in_gradient", "multiply">>, <<"in_gradient", "raised">>,
      <<"multiply", "undo">>, <<"undo", "format">>, <<"format", "returned">>,
      <<"returned", "idle">>, <<"raised", "idle">> }

C9_StateOrder ==
    \A c \in Calls :
        /\ pc[c] = "apply" =>
              requires_grad = pre[c] /\ gradient_mask[c] = <<>> /\ gradient_calls[c] = <<>>
        /\ pc[c] \in {"gradient", "in_gradient", "multiply", "undo"} =>
              /\ Len(gradient_mask[c]) = Len(inputs[c].items)
              /\ \A t \in TensorsOf(c) :
                    /\ gradient_mask[c][FirstIndex(inputs[c].items, t)] = pre[c][t]
                    /\ requires_grad[t]
              /\ \A t \in Tensors \ TensorsOf(c) : requires_grad[t] = pre[c][t]
        /\ pc[c] = "gradient" => gradient_calls[c] = <<>>
        /\ pc[c] \in {"in_gradient", "multiply", "undo", "format", "returned", "raised"} =>
              Len(gradient_calls[c]) = 1
        /\ pc[c] \in {"apply", "gradient", "in_gradient", "multiply"} =>
              attributions[c] = Unbound
        /\ pc[c] \in {"undo", "format"} =>
              attributions[c].type = "tuple" /\ outcome[c] = NoOutcome
        /\ pc[c] = "format" => requires_grad = pre[c]

C9_StepOrder ==
    /\ \A c \in Calls : pc'[c] # pc[c] => <<pc[c], pc'[c]>> \in StatementOrder
    /\ \A t \in Tensors :
          /\ requires_grad[t] /\ ~requires_grad'[t] =>
                \E c \in Calls : pc[c] = "undo" /\ pc'[c] = "format"
          /\ ~requires_grad[t] /\ requires_grad'[t] =>
                \E c \in Calls : pc[c] = "apply" /\ pc'[c] = "gradient"

Other(c) == CHOOSE o \in Calls : o # c

\* The call c shares no tensor with the other call.
Disjoint(c) ==
    \/ pc[Other(c)] = "idle"
    \/ TensorsOf(c) \cap TensorsOf(Other(c)) = {}

\* C10: two interleaved calls on disjoint tensors keep each call's guarantees
\* (flags on while its gradient is computed, flags as before the call once it
\* has returned); calls that share a tensor whose flag starts off can
\* interleave so that one call's restore switches the flag off while the other
\* call's gradient is still being computed.
C10_DisjointCallsKeepGuarantees ==
    \A c \in Calls :
        (pc[c] # "idle" /\ Disjoint(c)) =>
            /\ pc[c] = "in_gradient" => \A t \in TensorsOf(c) : requires_grad[t]
            /\ pc[c] = "returned" =>
                  \A t \in TensorsOf(c) : requires_grad[t] = pre[c][t]

C10_Witness ==
    \E t \in Tensors :
        /\ pc["A"] = "in_gradient" /\ pc["B"] = "format"
        /\ t \in TensorsOf("A") \cap TensorsOf("B")
        /\ ~pre["A"][t]
        /\ gradient_mask["A"][FirstIndex(inputs["A"].items, t)]
        /\ ~gradient_mask["B"][FirstIndex(inputs["B"].items, t)]
        /\ ~requires_grad[t]

====
